---- MODULE Spec2Model ----
(***************************************************************************)
(* A model of examples/lm.py: the character-level language model example   *)
(* of bnas.  Four specifications share the variables below:                *)
(*   Spec        the main script (lines 134-237), run after run on one     *)
(*               file system;                                              *)
(*   SpecLM      the LanguageModel class (lines 54-131) used on its own;   *)
(*   SpecCorpus  the corpus filter of lines 153-154;                       *)
(*   SpecMask    the mask_sequences calls of lines 202 and 206.            *)
(***************************************************************************)
EXTENDS Integers, Sequences, FiniteSets

VARIABLES
    pc,            \* position of the running script / of the class's user
    mode,          \* branch taken at line 141: "none", "load" or "train"
    argCorpus,     \* sys.argv[2]: "none" (absent), "missing" or "present"
    fileExists,    \* os.path.exists(model_filename)
    modelFile,     \* content of model_filename: a sequence of items
    savedConfig,   \* history: the config the writer of modelFile had
    savedParams,   \* history: the parameters the writer of modelFile had
    config,        \* the script's config dictionary
    symbols,       \* the script's symbols list
    index,         \* the script's index dictionary
    submodels,     \* names registered on the LanguageModel by Model.add
    params,        \* the model's parameter values (number of updates)
    nEncoded,      \* len(encoded)
    test_set,      \* positions of encoded held by test_set
    train_set,     \* positions of encoded held by train_set
    test_outputs,  \* positions of encoded the test matrix was built from
    batchIdx,      \* number of batches iterate_batches has yielded
    batch,         \* positions of encoded held by the current batch
    batch_nr,      \* the script's batch_nr
    loss,          \* the last value returned by optimizer.step
    log,           \* history: the run's calls and prints, in order
    firstNonFinite,\* history: Len(log) at the first non-finite loss, or 0
    firstNaN,      \* history: Len(log) at the first NaN loss, or 0
    pred,          \* result of lm.search
    corpus,        \* lines of the corpus file (SpecCorpus)
    sents,         \* the script's sents list (SpecCorpus)
    seqs,          \* the list given to mask_sequences (SpecMask)
    outputs,       \* the symbol matrix returned by mask_sequences
    outputs_mask   \* the mask returned by mask_sequences

vars == <<pc, mode, argCorpus, fileExists, modelFile, savedConfig,
          savedParams, config, symbols, index, submodels, params, nEncoded,
          test_set, train_set, test_outputs, batchIdx, batch, batch_nr,
          loss, log, firstNonFinite, firstNaN, pred, corpus, sents, seqs,
          outputs, outputs_mask>>

fsVars == <<fileExists, modelFile, savedConfig, savedParams>>
lmVars == <<config, symbols, index, submodels, params>>
dataVars == <<nEncoded, test_set, train_set, test_outputs>>
loopVars == <<batchIdx, batch, batch_nr, loss>>
histVars == <<firstNonFinite, firstNaN>>
textVars == <<corpus, sents, seqs, outputs, outputs_mask>>

(***************************************************************************)
(* Bounds of the model.                                                    *)
(***************************************************************************)
MaxBatches == 11       \* corpora yield up to MaxBatches + 1 training batches
MaxSearchLen == 4      \* SpecLM: search lengths are drawn from 0..MaxSearchLen
MaxLines == 2          \* SpecCorpus: lines per corpus file
MaxPad == 1            \* SpecCorpus: leading / trailing blanks per line
MaxSeqs == 2           \* SpecMask: sentences per list

(***************************************************************************)
(* Constants of the script.                                                *)
(***************************************************************************)
min_line_len == 10
embedding_dims == 64
state_dims == 1024
batch_size == 128
test_size == 128
max_length == 128
test_period == 10
search_batch_size == 1
search_max_length == 72
search_min_length == 72

Min(a, b) == IF a <= b THEN a ELSE b
Max(a, b) == IF a >= b THEN a ELSE b

(***************************************************************************)
(* Vocabulary and configuration.                                           *)
(***************************************************************************)
\* The vocabularies encode_sequences may return: a symbol list
Vocabs == { <<"<S>", "</S>", "a">>, <<"<S>", "</S>", "a", "b">> }

\* index maps each symbol to its id, the inverse of symbols
IndexOf(syms) ==
    [s \in {syms[i] : i \in DOMAIN syms} |->
        (CHOOSE i \in DOMAIN syms : syms[i] = s) - 1]

NoIndex == [s \in {} |-> 0]

NoConfig ==
    [n_symbols |-> 0, symbols |-> <<>>, index |-> NoIndex,
     embedding_dims |-> 0, state_dims |-> 0, layernorm |-> "", dropout |-> ""]

\* lines 160-168
MakeConfig(syms, idx) ==
    [n_symbols |-> Len(syms), symbols |-> syms, index |-> idx,
     embedding_dims |-> embedding_dims, state_dims |-> state_dims,
     layernorm |-> "c", dropout |-> "0.2"]

\* truth value of config['dropout'] (line 68); rates are written as text
Truthy(d) == d \notin {"0", "0.0", "None", "False", ""}

\* LanguageModel.__init__: the names Model.add registers (lines 61, 68-69)
LMSubmodels(cfg) ==
    {"gate"} \cup (IF Truthy(cfg.dropout) THEN {"gate_dropout"} ELSE {})

\* LanguageModel.__call__: the attributes it reads (lines 81, 86, 90-92)
CallNeeds == {"gate", "gate_dropout"}

CallOK(subs) == CallNeeds \subseteq subs

(***************************************************************************)
(* The model file: pickle.dump(config, f) followed by lm.save(f).          *)
(***************************************************************************)
ConfigKeys ==
    <<"n_symbols", "symbols", "index", "embedding_dims", "state_dims",
      "layernorm", "dropout">>

Item(k, v) == [k |-> k, v |-> v]

\* pickle.dump of the dictionary: its items, then the STOP opcode
Pickle(cfg) ==
    << Item("n_symbols", cfg.n_symbols), Item("symbols", cfg.symbols),
       Item("index", cfg.index), Item("embedding_dims", cfg.embedding_dims),
       Item("state_dims", cfg.state_dims), Item("layernorm", cfg.layernorm),
       Item("dropout", cfg.dropout), Item("STOP", 0) >>

\* Model.save: the parameter values
SaveParams(p) == << Item("params", p) >>

\* position of the first STOP opcode, 0 when there is none
StopPos(f) ==
    IF \E i \in DOMAIN f : f[i].k = "STOP"
    THEN CHOOSE i \in DOMAIN f :
            f[i].k = "STOP" /\ \A j \in 1..(i - 1) : f[j].k # "STOP"
    ELSE 0

\* pickle.load succeeds with a dictionary holding the configuration keys
PickleOK(f) ==
    /\ StopPos(f) = Len(ConfigKeys) + 1
    /\ \A i \in 1..Len(ConfigKeys) : f[i].k = ConfigKeys[i]

\* pickle.load: the dictionary read from the start of the file
Unpickle(f) ==
    [n_symbols |-> f[1].v, symbols |-> f[2].v, index |-> f[3].v,
     embedding_dims |-> f[4].v, state_dims |-> f[5].v,
     layernorm |-> f[6].v, dropout |-> f[7].v]

\* what pickle.load leaves unread
AfterPickle(f) == SubSeq(f, StopPos(f) + 1, Len(f))

\* Model.load succeeds on the rest of the file
ParamsOK(r) == Len(r) = 1 /\ r[1].k = "params"

LoadParams(r) == r[1].v

SaveFileSwapped(cfg, p) == SaveParams(p) \o Pickle(cfg)

\* lines 228-230: the configuration first, the parameters second
SaveFile(cfg, p) == Pickle(cfg) \o SaveParams(p)

(***************************************************************************)
(* Data split and batches.                                                 *)
(***************************************************************************)
Range(lo, hi) == [lo |-> lo, hi |-> hi]
NoRange == Range(1, 0)
Positions(r) == r.lo .. r.hi
Size(r) == IF r.hi >= r.lo THEN r.hi - r.lo + 1 ELSE 0

\* line 198: encoded[:test_size]
TestSet(n) == Range(1, Min(test_size, n))

TrainSetOverlapping(n) == Range(test_size, n)

\* line 199: encoded[test_size:]
TrainSet(n) == Range(test_size + 1, n)

\* iterate_batches: the number of batches of a training set
NumBatches(train) == (Size(train) + batch_size - 1) \div batch_size

\* iterate_batches: the k-th batch, batch_size sentences of the training set
BatchOf(train, k) ==
    Range(train.lo + (k - 1) * batch_size,
          Min(train.hi, train.lo + k * batch_size - 1))

\* the corpus sizes tried: around every multiple of batch_size
SentCounts ==
    {0, 1} \cup
    { n \in { test_size + k * batch_size + d :
                k \in 0..MaxBatches, d \in {-1, 0, 1} } : n >= 0 }

(***************************************************************************)
(* Training loop helpers.                                                  *)
(***************************************************************************)
Losses == {"finite", "nan", "inf", "-inf"}

isnanNever(l) == FALSE

\* np.isnan (line 217)
isnan(l) == l = "nan"

IsFinite(l) == l = "finite"

TestDueOffByOne(nr) == nr % test_period = 1

\* line 207
TestDue(nr) == nr % test_period = 0

AfterBreakExit == "done"

\* line 219: break leaves the loops; the statement after them is the save
AfterBreak == "save"

ModeOfInverted(exists) == IF exists THEN "train" ELSE "load"

\* line 141
ModeOf(exists) == IF exists THEN "load" ELSE "train"

Ev(e, a, b) == [ev |-> e, a |-> a, b |-> b]

(***************************************************************************)
(* Beam search (bnas.search.beam) and LanguageModel.search.                *)
(***************************************************************************)
NoPred == [len |-> 0, stopAt |-> 0]

\* beam: a returned sequence either ends with the stop symbol, at a
\* position from min_length to max_length, or reaches max_length without
\* one.  len is its length, stopAt the position of its stop symbol (0: none)
beam(n, start_symbol, stop_symbol, maxlen, minlen) ==
    { [len |-> p, stopAt |-> p] : p \in Max(minlen, 1)..maxlen }
    \cup { [len |-> maxlen, stopAt |-> 0] }

searchWithoutMin(n, start_symbol, stop_symbol, maxlen, minlen) ==
    beam(n, start_symbol, stop_symbol, maxlen, 0)

\* LanguageModel.search (lines 109-131)
search(n, start_symbol, stop_symbol, maxlen, minlen) ==
    beam(n, start_symbol, stop_symbol, maxlen, minlen)

(***************************************************************************)
(* Spec: the main script.                                                  *)
(***************************************************************************)
ArgCorpusValues == {"none", "missing", "present"}

\* the model files a run may find: none, an empty (malformed) one, or one
\* saved by an earlier training run
InitFiles ==
    { [exists |-> FALSE, content |-> <<>>, cfg |-> NoConfig, par |-> 0],
      [exists |-> TRUE, content |-> <<>>, cfg |-> NoConfig, par |-> 0] }
    \cup
    { [exists |-> TRUE,
       content |-> SaveFile(MakeConfig(v, IndexOf(v)), p),
       cfg |-> MakeConfig(v, IndexOf(v)), par |-> p] :
        v \in Vocabs, p \in {0, 1} }

RunStart ==
    /\ pc = "start"
    /\ mode = "none"
    /\ config = NoConfig
    /\ symbols = <<>>
    /\ index = NoIndex
    /\ submodels = {}
    /\ params = 0
    /\ nEncoded = 0
    /\ test_set = NoRange
    /\ train_set = NoRange
    /\ test_outputs = NoRange
    /\ batchIdx = 0
    /\ batch = NoRange
    /\ batch_nr = 0
    /\ loss = "none"
    /\ log = <<>>
    /\ firstNonFinite = 0
    /\ firstNaN = 0
    /\ pred = NoPred

TextIdle ==
    /\ corpus = <<>>
    /\ sents = <<>>
    /\ seqs = <<>>
    /\ outputs = <<>>
    /\ outputs_mask = <<>>

Init ==
    /\ RunStart
    /\ TextIdle
    /\ argCorpus \in ArgCorpusValues
    /\ \E f \in InitFiles :
        /\ fileExists = f.exists
        /\ modelFile = f.content
        /\ savedConfig = f.cfg
        /\ savedParams = f.par

Fail ==
    /\ pc' = "failed"
    /\ log' = Append(log, Ev("raise", 0, 0))

\* line 141: if os.path.exists(model_filename)
CheckExists ==
    /\ pc = "start"
    /\ mode' = ModeOf(fileExists)
    /\ pc' = mode'
    /\ log' = Append(log, Ev("exists", IF fileExists THEN 1 ELSE 0, 0))
    /\ UNCHANGED <<argCorpus, fsVars, lmVars, dataVars, loopVars, histVars,
                   pred, textVars>>

\* lines 142-148: open the file, pickle.load, LanguageModel, lm.load
LoadModel ==
    /\ pc = "load"
    /\ IF fileExists /\ PickleOK(modelFile)
          /\ ParamsOK(AfterPickle(modelFile))
       THEN /\ config' = Unpickle(modelFile)
            /\ submodels' = LMSubmodels(config')
            /\ params' = LoadParams(AfterPickle(modelFile))
            /\ symbols' = config'.symbols
            /\ index' = config'.index
            /\ log' = log \o << Ev("read_model", 0, 0), Ev("loaded", 0, 0) >>
            /\ pc' = "search"
       ELSE /\ Fail
            /\ UNCHANGED lmVars
    /\ UNCHANGED <<mode, argCorpus, fsVars, dataVars, loopVars, histVars,
                   pred, textVars>>

\* lines 150-151: sys.argv[2] and the assertion that the corpus exists
CorpusArg ==
    /\ pc = "train"
    /\ IF argCorpus = "present"
       THEN /\ pc' = "read"
            /\ log' = Append(log, Ev("argv2", 0, 0))
       ELSE Fail
    /\ UNCHANGED <<mode, argCorpus, fsVars, lmVars, dataVars, loopVars,
                   histVars, pred, textVars>>

\* lines 153-157: read and filter the corpus, encode_sequences.  The corpus
\* is given by the number of sentences kept and its vocabulary.
ReadCorpus ==
    /\ pc = "read"
    /\ \E n \in SentCounts, v \in Vocabs :
        /\ nEncoded' = n
        /\ symbols' = v
        /\ index' = IndexOf(v)
    /\ log' = Append(log, Ev("read_corpus", 0, 0))
    /\ pc' = "build"
    /\ UNCHANGED <<mode, argCorpus, fsVars, config, submodels, params,
                   test_set, train_set, test_outputs, loopVars, histVars,
                   pred, textVars>>

\* lines 160-196: config, LanguageModel, batch_nr, optimizer on lm.loss,
\* cross_entropy function
BuildModel ==
    /\ pc = "build"
    /\ config' = MakeConfig(symbols, index)
    /\ submodels' = LMSubmodels(config')
    /\ params' = 0
    /\ batch_nr' = 0
    /\ IF CallOK(submodels')
       THEN /\ pc' = "split"
            /\ log' = Append(log, Ev("built", 0, 0))
       ELSE Fail
    /\ UNCHANGED <<mode, argCorpus, fsVars, symbols, index, dataVars,
                   batchIdx, batch, loss, histVars, pred, textVars>>

\* lines 198-202: the split and the test matrix
SplitData ==
    /\ pc = "split"
    /\ test_set' = TestSet(nEncoded)
    /\ train_set' = TrainSet(nEncoded)
    /\ test_outputs' = test_set'
    /\ batchIdx' = 0
    /\ log' = Append(log, Ev("enter_loop", 0, 0))
    /\ pc' = "loop"
    /\ UNCHANGED <<mode, argCorpus, fsVars, lmVars, nEncoded, batch,
                   batch_nr, loss, histVars, pred, textVars>>

\* lines 204-206: the next batch of iterate_batches, or the end of the loops
NextBatch ==
    /\ pc = "loop"
    /\ IF batchIdx < NumBatches(train_set)
       THEN /\ batchIdx' = batchIdx + 1
            /\ batch' = BatchOf(train_set, batchIdx + 1)
            /\ pc' = "test_check"
       ELSE /\ pc' = "save"
            /\ UNCHANGED <<batchIdx, batch>>
    /\ UNCHANGED <<mode, argCorpus, fsVars, lmVars, dataVars, batch_nr,
                   loss, log, histVars, pred, textVars>>

\* lines 207-212: the periodic test loss
TestLoss ==
    /\ pc = "test_check"
    /\ log' = IF TestDue(batch_nr)
              THEN Append(log, Ev("test", test_outputs.lo, test_outputs.hi))
              ELSE log
    /\ pc' = "step"
    /\ UNCHANGED <<mode, argCorpus, fsVars, lmVars, dataVars, loopVars,
                   histVars, pred, textVars>>

\* lines 213-215: optimizer.step on the batch
Step ==
    /\ pc = "step"
    /\ \E l \in Losses : loss' = l
    /\ params' = params + 1
    /\ log' = Append(log, Ev("step", batch.lo, batch.hi))
    /\ firstNonFinite' = IF firstNonFinite = 0 /\ ~IsFinite(loss')
                         THEN Len(log') ELSE firstNonFinite
    /\ firstNaN' = IF firstNaN = 0 /\ loss' = "nan"
                   THEN Len(log') ELSE firstNaN
    /\ pc' = "nan_check"
    /\ UNCHANGED <<mode, argCorpus, fsVars, config, symbols, index,
                   submodels, dataVars, batchIdx, batch, batch_nr, pred,
                   textVars>>

\* lines 217-219: the NaN test, its message and the break
NanCheck ==
    /\ pc = "nan_check"
    /\ IF isnan(loss)
       THEN /\ log' = Append(log, Ev("nan_message", 0, 0))
            /\ pc' = AfterBreak
       ELSE /\ pc' = "print"
            /\ UNCHANGED log
    /\ UNCHANGED <<mode, argCorpus, fsVars, lmVars, dataVars, loopVars,
                   histVars, pred, textVars>>

\* lines 220-226: the train-loss line and the counter
PrintTrain ==
    /\ pc = "print"
    /\ log' = Append(log, Ev("train", batch_nr + 1, 0))
    /\ batch_nr' = batch_nr + 1
    /\ pc' = "loop"
    /\ UNCHANGED <<mode, argCorpus, fsVars, lmVars, dataVars, batchIdx,
                   batch, loss, histVars, pred, textVars>>

\* lines 228-231: write the model file
SaveModel ==
    /\ pc = "save"
    /\ fileExists' = TRUE
    /\ modelFile' = SaveFile(config, params)
    /\ savedConfig' = config
    /\ savedParams' = params
    /\ log' = log \o << Ev("write_model", 0, 0), Ev("saved", 0, 0) >>
    /\ pc' = "search"
    /\ UNCHANGED <<mode, argCorpus, lmVars, dataVars, loopVars, histVars,
                   pred, textVars>>

\* lines 233-237: lm.search and the printed predictions
Search ==
    /\ pc = "search"
    /\ IF {"<S>", "</S>"} \subseteq DOMAIN index /\ "gate" \in submodels
       THEN /\ pred' \in search(search_batch_size, index["<S>"],
                                index["</S>"], search_max_length,
                                search_min_length)
            /\ log' = log \o << Ev("search", search_max_length,
                                   search_min_length),
                                Ev("print_pred", 0, 0) >>
            /\ pc' = "done"
       ELSE /\ Fail
            /\ UNCHANGED pred
    /\ UNCHANGED <<mode, argCorpus, fsVars, lmVars, dataVars, loopVars,
                   histVars, textVars>>

\* the process has ended; the script is started again on the same files
Restart ==
    /\ pc \in {"done", "failed"}
    /\ pc' = "start"
    /\ mode' = "none"
    /\ config' = NoConfig
    /\ symbols' = <<>>
    /\ index' = NoIndex
    /\ submodels' = {}
    /\ params' = 0
    /\ nEncoded' = 0
    /\ test_set' = NoRange
    /\ train_set' = NoRange
    /\ test_outputs' = NoRange
    /\ batchIdx' = 0
    /\ batch' = NoRange
    /\ batch_nr' = 0
    /\ loss' = "none"
    /\ log' = <<>>
    /\ firstNonFinite' = 0
    /\ firstNaN' = 0
    /\ pred' = NoPred
    /\ argCorpus' \in ArgCorpusValues
    /\ UNCHANGED <<fsVars, textVars>>

Next ==
    \/ CheckExists
    \/ LoadModel
    \/ CorpusArg
    \/ ReadCorpus
    \/ BuildModel
    \/ SplitData
    \/ NextBatch
    \/ TestLoss
    \/ Step
    \/ NanCheck
    \/ PrintTrain
    \/ SaveModel
    \/ Search
    \/ Restart

Spec == Init /\ [][Next]_vars

(***************************************************************************)
(* Properties of the main script (checked under Spec).                     *)
(***************************************************************************)
Count(e) == Cardinality({ i \in DOMAIN log : log[i].ev = e })
Has(e) == \E i \in DOMAIN log : log[i].ev = e
LoopEvents == {"step", "test", "train"}
RunEnded == pc \in {"done", "failed"}
ExistedAtStart == Len(log) > 0 /\ log[1] = Ev("exists", 1, 0)
AbsentAtStart == Len(log) > 0 /\ log[1] = Ev("exists", 0, 0)
\* every event named e1 comes before every event named e2
Before(e1, e2) ==
    \A i, j \in DOMAIN log :
        (log[i].ev = e1 /\ log[j].ev = e2) => i < j

\* C1: a run whose model file exists at start-up only loads (it reads the
\* file, never reads the corpus argument or the corpus, never steps the
\* optimizer, never writes the file); a run whose model file is absent only
\* trains (reads the corpus, then steps, then writes the file once) and
\* never reads the file; the beam search call is the last call of a run.
C1_ModeSelection ==
    /\ mode = "load" =>
        /\ ExistedAtStart
        /\ ~Has("argv2") /\ ~Has("read_corpus") /\ ~Has("step")
        /\ ~Has("write_model")
        /\ pc = "done" => Count("read_model") = 1
    /\ mode = "train" =>
        /\ AbsentAtStart
        /\ ~Has("read_model")
        /\ pc = "done" =>
            /\ Count("read_corpus") = 1
            /\ Count("write_model") = 1
            /\ Before("read_corpus", "step")
            /\ Before("step", "write_model")
            /\ Before("read_corpus", "write_model")
    /\ pc = "done" => Count("search") = 1
    /\ \A i \in DOMAIN log :
        log[i].ev = "search" =>
            \A j \in (i + 1)..Len(log) : log[j].ev = "print_pred"

C1_Witness ==
    /\ pc = "done"
    /\ mode = "load"
    /\ ExistedAtStart
    /\ Count("read_model") = 1
    /\ log[Len(log) - 1].ev = "search"

\* C2 as stated: after the first non-finite loss (NaN, +infinity or
\* -infinity) the message is printed and no further optimizer step, test
\* evaluation or train-loss print happens in the run.
C2_NonFiniteHalts ==
    firstNonFinite > 0 =>
        /\ \A i \in (firstNonFinite + 1)..Len(log) :
                log[i].ev \notin LoopEvents
        /\ pc # "nan_check" => Has("nan_message")

\* C2 amended: after the first NaN loss the message is printed next and no
\* further optimizer step, test evaluation or train-loss print happens in
\* the run.
C2_NaNHalts ==
    firstNaN > 0 =>
        /\ \A i \in (firstNaN + 1)..Len(log) : log[i].ev \notin LoopEvents
        /\ pc # "nan_check" =>
            /\ Len(log) > firstNaN
            /\ log[firstNaN + 1].ev = "nan_message"
        /\ Count("nan_message") <= 1

C2_Witness ==
    /\ pc = "done"
    /\ firstNaN > 0
    /\ Has("nan_message")
    /\ batchIdx < NumBatches(train_set)
    /\ Count("step") >= 2

\* C3: the file written by a training run holds the pickled configuration
\* first and the parameters second, and a run that loads a written file
\* gets past the load with the writer's configuration, symbols, index and
\* parameters.
C3_SaveLoadRoundTrip ==
    /\ (fileExists /\ savedConfig # NoConfig) =>
        /\ Len(modelFile) = Len(ConfigKeys) + 2
        /\ \A i \in 1..Len(ConfigKeys) : modelFile[i].k = ConfigKeys[i]
        /\ modelFile[Len(ConfigKeys) + 1].k = "STOP"
        /\ modelFile[Len(modelFile)] = Item("params", savedParams)
    /\ (mode = "load" /\ savedConfig # NoConfig /\ pc \notin {"start", "load"})
        =>
        /\ pc \in {"search", "done"}
        /\ config = savedConfig
        /\ config.n_symbols = savedConfig.n_symbols
        /\ symbols = savedConfig.symbols
        /\ index = savedConfig.index
        /\ params = savedParams

C3_Witness ==
    /\ pc = "done"
    /\ mode = "load"
    /\ savedParams >= 2
    /\ config = savedConfig
    /\ config.symbols = <<"<S>", "</S>", "a", "b">>
    /\ config.dropout = "0.2"

\* the optimizer steps completed so far whose loss was not NaN
NonNaNSteps == Count("step") - (IF firstNaN > 0 THEN 1 ELSE 0)
InLoop == pc \in {"loop", "test_check", "step", "nan_check", "print"}
Trains == SelectSeq(log, LAMBDA e : e.ev = "train")
\* the value batch_nr had when log[i] was recorded
BatchNrAt(i) == Cardinality({ j \in 1..(i - 1) : log[j].ev = "train" })

\* C7 as stated: at every point of the training loop batch_nr equals the
\* number of optimizer steps completed so far whose loss was not NaN.
C7_CounterAtEveryPoint == InLoop => batch_nr = NonNaNSteps

\* C7 amended: at the top of every iteration (and after the loop) batch_nr
\* equals the number of completed non-NaN steps, and between a non-NaN
\* step and the increment of line 226 it is one less; the test loss is
\* evaluated before a step exactly when batch_nr is a multiple of 10; the
\* train lines are numbered 1, 2, 3, ... and one follows every non-NaN step.
C7_PeriodicReporting ==
    /\ (mode = "train" /\ pc \in {"loop", "test_check", "step", "save",
                                  "search", "done"})
        => batch_nr = NonNaNSteps
    /\ pc \in {"nan_check", "print"} =>
        batch_nr = NonNaNSteps - (IF loss = "nan" THEN 0 ELSE 1)
    /\ \A i \in DOMAIN log :
        log[i].ev = "step" =>
            (log[i - 1].ev = "test" <=> BatchNrAt(i) % test_period = 0)
    /\ \A i \in DOMAIN log :
        log[i].ev = "test" => (i < Len(log) => log[i + 1].ev = "step")
    /\ pc = "step" => (log[Len(log)].ev = "test" <=> batch_nr % test_period = 0)
    /\ \A j \in DOMAIN Trains : Trains[j].a = j
    /\ Len(Trains) = batch_nr
    /\ \A i \in DOMAIN log :
        (log[i].ev = "step" /\ i # firstNaN /\ (i < Len(log) \/ pc = "loop"))
            => (i < Len(log) /\ log[i + 1] = Ev("train", BatchNrAt(i) + 1, 0))

C7_Witness ==
    /\ pc = "done"
    /\ batch_nr = 11
    /\ Count("test") = 2
    /\ firstNonFinite > 0
    /\ firstNaN > 0

EnteredLoop == Has("enter_loop")

\* C8: a run that enters the training loop writes the model file exactly
\* once, after the loop's last step, test evaluation and print and before
\* the beam search, however the loop ended; a run that fails before the
\* loop writes nothing and leaves the file absent.
C8_SaveFollowsTraining ==
    /\ Count("write_model") <= 1
    /\ (RunEnded /\ EnteredLoop) =>
        /\ pc = "done"
        /\ Count("write_model") = 1
    /\ Has("write_model") =>
        /\ EnteredLoop
        /\ fileExists
        /\ Before("step", "write_model")
        /\ Before("test", "write_model")
        /\ Before("train", "write_model")
        /\ Before("nan_message", "write_model")
        /\ Before("write_model", "search")
    /\ (mode = "train" /\ ~Has("write_model")) => ~fileExists
    /\ (pc = "failed" /\ mode = "train") =>
        /\ ~EnteredLoop
        /\ ~Has("write_model")

C8_Witness ==
    /\ pc = "done"
    /\ firstNaN > 0
    /\ Count("write_model") = 1
    /\ log[Len(log) - 1].ev = "search"
    /\ log[Len(log) - 3].ev = "write_model"

\* C9: the test set is the first test_size encoded sentences (all of them
\* when there are fewer), the training set is the rest; they are disjoint
\* and cover every sentence; every batch given to optimizer.step lies in
\* the training set and every matrix given to the test cross-entropy is
\* built from the test set alone.
C9_TestTrainSeparation ==
    EnteredLoop =>
        /\ Positions(test_set) = 1..Min(test_size, nEncoded)
        /\ Positions(test_set) \cap Positions(train_set) = {}
        /\ Positions(test_set) \cup Positions(train_set) = 1..nEncoded
        /\ \A i \in DOMAIN log :
            /\ log[i].ev = "step" =>
                /\ log[i].a <= log[i].b
                /\ (log[i].a .. log[i].b) \subseteq Positions(train_set)
                /\ (log[i].a .. log[i].b) \cap Positions(test_set) = {}
            /\ log[i].ev = "test" =>
                /\ (log[i].a .. log[i].b) = Positions(test_set)
                /\ (log[i].a .. log[i].b) \cap Positions(train_set) = {}

C9_Witness ==
    /\ pc = "done"
    /\ nEncoded > test_size + batch_size
    /\ Count("step") >= 2
    /\ Count("test") >= 1
    /\ Size(test_set) = test_size

(***************************************************************************)
(* SpecLM: a LanguageModel built from any configuration and then used.     *)
(***************************************************************************)
\* the configurations a caller may pass to LanguageModel
LMConfigs ==
    { [n_symbols |-> Len(v), symbols |-> v, index |-> IndexOf(v),
       embedding_dims |-> e, state_dims |-> d, layernorm |-> ln,
       dropout |-> dr] :
        v \in Vocabs, e \in {32, embedding_dims}, d \in {256, state_dims},
        ln \in {"c", "False"}, dr \in {"0.0", "0.2", "0.5"} }

SearchLens == (0..MaxSearchLen) \cup {search_max_length}

InitLM ==
    /\ pc = "lm_new"
    /\ mode = "none"
    /\ config \in LMConfigs
    /\ symbols = config.symbols
    /\ index = config.index
    /\ submodels = {}
    /\ params = 0
    /\ nEncoded = 0
    /\ test_set = NoRange
    /\ train_set = NoRange
    /\ test_outputs = NoRange
    /\ batchIdx = 0
    /\ batch = NoRange
    /\ batch_nr = 0
    /\ loss = "none"
    /\ log = <<>>
    /\ firstNonFinite = 0
    /\ firstNaN = 0
    /\ pred = NoPred
    /\ TextIdle
    /\ argCorpus = "none"
    /\ fileExists = FALSE
    /\ modelFile = <<>>
    /\ savedConfig = NoConfig
    /\ savedParams = 0

lmFrame == <<mode, argCorpus, fsVars, config, symbols, index, params,
             dataVars, loopVars, histVars, textVars>>

\* LanguageModel.__init__ (lines 55-74)
LMConstruct ==
    /\ pc = "lm_new"
    /\ submodels' = LMSubmodels(config)
    /\ log' = Append(log, Ev("init", 0, 0))
    /\ pc' = "lm_ready"
    /\ UNCHANGED <<lmFrame, pred>>

\* LanguageModel.cross_entropy (lines 95-101), which calls __call__
LMCrossEntropy ==
    /\ pc = "lm_ready"
    /\ log' = Append(log, Ev("cross_entropy", 0, 0))
    /\ pc' = IF CallOK(submodels) THEN "lm_expr" ELSE "lm_error"
    /\ UNCHANGED <<lmFrame, submodels, pred>>

\* LanguageModel.loss (lines 103-107), which calls cross_entropy
LMLoss ==
    /\ pc = "lm_ready"
    /\ log' = Append(log, Ev("loss", 0, 0))
    /\ pc' = IF CallOK(submodels) THEN "lm_expr" ELSE "lm_error"
    /\ UNCHANGED <<lmFrame, submodels, pred>>

\* LanguageModel.search (lines 109-131)
LMSearch ==
    /\ pc \in {"lm_ready", "lm_expr"}
    /\ "gate" \in submodels
    /\ \E maxlen \in SearchLens \ {0}, minlen \in SearchLens :
        /\ pred' \in search(search_batch_size, index["<S>"], index["</S>"],
                            maxlen, minlen)
        /\ log' = Append(log, Ev("search", maxlen, minlen))
    /\ pc' = "lm_searched"
    /\ UNCHANGED <<lmFrame, submodels>>

NextLM ==
    \/ LMConstruct
    \/ LMCrossEntropy
    \/ LMLoss
    \/ LMSearch

SpecLM == InitLM /\ [][NextLM]_vars

\* the arguments of the last search call
SearchMax == log[Len(log)].a
SearchMin == log[Len(log)].b

\* C5: every sequence lm.search returns is at most max_length long and
\* holds no stop symbol at a position before min_length.
C5_SearchLengthBounds ==
    pc = "lm_searched" =>
        /\ log[Len(log)].ev = "search"
        /\ pred.len >= 1
        /\ pred.len <= SearchMax
        /\ pred.stopAt # 0 => (pred.stopAt >= SearchMin /\ pred.stopAt <= pred.len)

C5_Witness ==
    /\ pc = "lm_searched"
    /\ SearchMin >= 2
    /\ SearchMax > SearchMin
    /\ pred.stopAt = SearchMin
    /\ pred.len = SearchMin

\* C10: building the sequence expression (cross_entropy, loss) finds every
\* sub-model __call__ reads, whatever the dropout rate of the configuration.
C10_CallFindsSubmodels ==
    pc \in {"lm_expr", "lm_error"} =>
        /\ pc # "lm_error"
        /\ CallNeeds \subseteq submodels

(***************************************************************************)
(* SpecCorpus: the corpus filter of lines 153-154.                         *)
(***************************************************************************)
Blank == {" ", "\n"}

Rep(c, n) == [i \in 1..n |-> c]

\* a line of the file: blanks, the text, blanks, and the line break unless
\* it is a last line without one
MkLine(lead, body, trail, nl) ==
    Rep(" ", lead) \o Rep("a", body) \o Rep(" ", trail)
        \o (IF nl THEN <<"\n">> ELSE <<>>)

BodyLens == (min_line_len - 2)..min_line_len

Lines ==
    { MkLine(l, b, t, nl) :
        l \in 0..MaxPad, b \in BodyLens, t \in 0..MaxPad, nl \in BOOLEAN }

Corpora == UNION { [1..n -> Lines] : n \in 0..MaxLines }

RECURSIVE lstrip(_)
lstrip(s) ==
    IF s # <<>> /\ Head(s) \in Blank THEN lstrip(Tail(s)) ELSE s

RECURSIVE rstrip(_)
rstrip(s) ==
    IF s # <<>> /\ s[Len(s)] \in Blank
    THEN rstrip(SubSeq(s, 1, Len(s) - 1)) ELSE s

\* str.strip
strip(s) == rstrip(lstrip(s))

KeepLineStripped(line) == Len(strip(line)) >= min_line_len

\* line 154: if len(line) >= 10
KeepLine(line) == Len(line) >= min_line_len

\* line 154: [line.strip() for line in f if len(line) >= 10]
RECURSIVE FilterLines(_)
FilterLines(ls) ==
    IF ls = <<>> THEN <<>>
    ELSE (IF KeepLine(Head(ls)) THEN <<strip(Head(ls))>> ELSE <<>>)
            \o FilterLines(Tail(ls))

InitCorpus ==
    /\ pc = "corpus_open"
    /\ corpus \in Corpora
    /\ sents = <<>>
    /\ seqs = <<>>
    /\ outputs = <<>>
    /\ outputs_mask = <<>>
    /\ mode = "none"
    /\ config = NoConfig
    /\ symbols = <<>>
    /\ index = NoIndex
    /\ submodels = {}
    /\ params = 0
    /\ nEncoded = 0
    /\ test_set = NoRange
    /\ train_set = NoRange
    /\ test_outputs = NoRange
    /\ batchIdx = 0
    /\ batch = NoRange
    /\ batch_nr = 0
    /\ loss = "none"
    /\ log = <<>>
    /\ firstNonFinite = 0
    /\ firstNaN = 0
    /\ pred = NoPred
    /\ argCorpus = "present"
    /\ fileExists = FALSE
    /\ modelFile = <<>>
    /\ savedConfig = NoConfig
    /\ savedParams = 0

mainVars == <<mode, argCorpus, fsVars, lmVars, dataVars, loopVars, log,
              histVars, pred>>

\* lines 153-154: the sentences read from the corpus file
ReadSents ==
    /\ pc = "corpus_open"
    /\ sents' = FilterLines(corpus)
    /\ pc' = "corpus_read"
    /\ UNCHANGED <<mainVars, corpus, seqs, outputs, outputs_mask>>

NextCorpus == ReadSents

SpecCorpus == InitCorpus /\ [][NextCorpus]_vars

\* the positions of the corpus lines with property P, in corpus order
RawLong == { i \in DOMAIN corpus : Len(corpus[i]) >= min_line_len }
TextLong == { i \in DOMAIN corpus : Len(strip(corpus[i])) >= min_line_len }
\* the k-th smallest element of a set of positions
Nth(S, k) == CHOOSE i \in S : Cardinality({ j \in S : j < i }) = k - 1
LongSents == SelectSeq(sents, LAMBDA x : Len(x) >= min_line_len)

\* C4 as stated: every sentence kept has at least 10 characters, and every
\* line whose sentence text has at least 10 characters is kept, in order.
C4_SentencesAtLeastTen ==
    pc = "corpus_read" =>
        /\ \A k \in DOMAIN sents : Len(sents[k]) >= min_line_len
        /\ Len(sents) = Cardinality(TextLong)
        /\ \A k \in DOMAIN sents : sents[k] = strip(corpus[Nth(TextLong, k)])

\* C4 amended: the sentences kept are, in corpus order, the stripped texts
\* of exactly the lines whose raw length (blanks and line break included)
\* is at least 10, so a kept sentence may be shorter than 10; every line
\* whose sentence text has at least 10 characters is kept, in corpus order.
C4_CorpusFiltering ==
    pc = "corpus_read" =>
        /\ Len(sents) = Cardinality(RawLong)
        /\ \A k \in DOMAIN sents : sents[k] = strip(corpus[Nth(RawLong, k)])
        /\ Len(LongSents) = Cardinality(TextLong)
        /\ \A k \in DOMAIN LongSents :
                LongSents[k] = strip(corpus[Nth(TextLong, k)])
        /\ \A k \in DOMAIN sents :
                sents[k] = <<>> \/ (sents[k][1] \notin Blank
                                    /\ sents[k][Len(sents[k])] \notin Blank)

C4_Witness ==
    /\ pc = "corpus_read"
    /\ Len(corpus) = 2
    /\ Len(sents) = 1
    /\ Len(sents[1]) = min_line_len - 1
    /\ Len(corpus[1]) = min_line_len - 1
    /\ Len(corpus[2]) = min_line_len

(***************************************************************************)
(* SpecMask: the mask_sequences calls of lines 202 and 206.                *)
(***************************************************************************)
\* an encoded sentence of the given length over the symbol ids 0..2
SentOf(len, k) == [i \in 1..len |-> (i + k) % 3]

SentLens == {1, 2, max_length - 1, max_length, max_length + 1}

Sentences == { SentOf(len, k) : len \in SentLens, k \in 0..1 }

SeqLists == UNION { [1..n -> Sentences] : n \in 1..MaxSeqs }

MaxLen(ss) ==
    CHOOSE m \in { Len(ss[j]) : j \in DOMAIN ss } :
        \A j \in DOMAIN ss : Len(ss[j]) <= m

\* bnas.text.mask_sequences: a matrix with one row per position, up to
\* maxlen rows, and one column per sentence, padded with 0, and its mask
mask_sequences(ss, maxlen) ==
    LET rows == Min(maxlen, MaxLen(ss))
    IN  [m |-> [t \in 1..rows |-> [j \in DOMAIN ss |->
                    IF t <= Len(ss[j]) THEN ss[j][t] ELSE 0]],
         mask |-> [t \in 1..rows |-> [j \in DOMAIN ss |-> t <= Len(ss[j])]]]

MaskCallTooLong(ss) == mask_sequences(ss, max_length + 1)

\* lines 202 and 206: mask_sequences(test_set, max_length) and
\* mask_sequences(batch, max_length)
MaskCall(ss) == mask_sequences(ss, max_length)

InitMask ==
    /\ pc = "mask_call"
    /\ seqs \in SeqLists
    /\ outputs = <<>>
    /\ outputs_mask = <<>>
    /\ corpus = <<>>
    /\ sents = <<>>
    /\ mode = "none"
    /\ config = NoConfig
    /\ symbols = <<>>
    /\ index = NoIndex
    /\ submodels = {}
    /\ params = 0
    /\ nEncoded = 0
    /\ test_set = NoRange
    /\ train_set = NoRange
    /\ test_outputs = NoRange
    /\ batchIdx = 0
    /\ batch = NoRange
    /\ batch_nr = 0
    /\ loss = "none"
    /\ log = <<>>
    /\ firstNonFinite = 0
    /\ firstNaN = 0
    /\ pred = NoPred
    /\ argCorpus = "present"
    /\ fileExists = FALSE
    /\ modelFile = <<>>
    /\ savedConfig = NoConfig
    /\ savedParams = 0

\* lines 202 / 206: outputs, outputs_mask = mask_sequences(batch, max_length)
MaskBatch ==
    /\ pc = "mask_call"
    /\ outputs' = MaskCall(seqs).m
    /\ outputs_mask' = MaskCall(seqs).mask
    /\ pc' = "masked"
    /\ UNCHANGED <<mainVars, corpus, sents, seqs>>

NextMask == MaskBatch

SpecMask == InitMask /\ [][NextMask]_vars

\* C6: the symbol matrix and the mask have the same rectangular shape, one
\* column per sentence and at most max_length rows; the mask is true at
\* exactly the positions holding a symbol of the sentence (where the matrix
\* holds that symbol) and false at exactly the padding positions.
C6_BatchShapeAndMask ==
    pc = "masked" =>
        /\ Len(outputs) = Len(outputs_mask)
        /\ Len(outputs) <= max_length
        /\ Len(outputs) = Min(max_length, MaxLen(seqs))
        /\ \A t \in DOMAIN outputs :
            /\ DOMAIN outputs[t] = DOMAIN seqs
            /\ DOMAIN outputs_mask[t] = DOMAIN seqs
            /\ \A j \in DOMAIN seqs :
                /\ outputs_mask[t][j] \in BOOLEAN
                /\ outputs_mask[t][j] <=> t <= Len(seqs[j])
                /\ outputs_mask[t][j] => outputs[t][j] = seqs[j][t]
                /\ ~outputs_mask[t][j] => outputs[t][j] = 0

C6_Witness ==
    /\ pc = "masked"
    /\ Len(seqs) = 2
    /\ Len(seqs[1]) = 2
    /\ Len(seqs[2]) = max_length + 1
    /\ Len(outputs) = max_length
    /\ ~outputs_mask[3][1]
    /\ outputs_mask[max_length][2]

====
